---- MODULE Spec2Model ----
(***************************************************************************)
(* A model of src/src/e2_simulator.py: the E2Simulator scheduler loop      *)
(* (simulation_loop), its delivery client (send_to_xapp) and the control   *)
(* thread (start).  Time is counted in seconds; generating a record and    *)
(* logging take no time, a delivery in flight and time.sleep do.           *)
(***************************************************************************)
EXTENDS Integers, Sequences, FiniteSets, TLC

\* ---------------------------------------------------------------- bounds
\* Ticks of simulation_loop that are explored.
MaxTicks == 2
\* Calls of send_to_xapp a direct caller makes in SpecDeliver.
MaxCalls == 2

\* ------------------------------------------------------ program constants
\* config['interval']: seconds slept between two ticks.
Interval == 5
\* timeout=5 of requests.post.
Timeout == 5
\* time.sleep(2) after the KeyboardInterrupt.
Grace == 2

\* config['cells'] as __init__ sets it.
ConfiguredCells == <<"cell_001", "cell_002", "cell_003">>

\* config['ues']: list(range(1, 21)).
Ues == 1..20

\* The keys of config['xapps'].
Xapps == {"kpimon", "traffic-steering", "qoe-predictor", "ran-control"}

\* Names a direct caller may pass that config['xapps'] does not hold.
UnknownNames == {"no-such-xapp"}

\* The four record kinds and the generator that makes each.
Kinds == {"kpi", "handover", "qoe", "control"}

\* What requests.post can end with once the request is on the wire: a response
\* with a status code, or an exception.  ConnectTimeout is a subclass of
\* requests.exceptions.ConnectionError, ReadTimeout is not.
Responses == {[status |-> s, exc |-> "none"] : s \in {200, 204, 500}}
Failures == {[status |-> 0, exc |-> e] :
               e \in {"ConnectionError", "ConnectTimeout", "ReadTimeout"}}
NetResults == Responses \cup Failures

\* The exception json serialization raises inside requests.post, before anything
\* is sent.
EncodingFailure == [status |-> 0, exc |-> "TypeError"]

\* The exceptions that only the expiry of timeout=5 raises.
TimeoutExcs == {"ConnectTimeout", "ReadTimeout"}

\* isinstance(e, requests.exceptions.ConnectionError)
IsConnectionError(e) == e \in {"ConnectionError", "ConnectTimeout"}

VARIABLES
  cells,      \* self.config['cells'], a list
  running,    \* self.running
  mainPc,     \* the control thread in start(): init, waiting, grace, exited
  graceT,     \* seconds of time.sleep(2) that have passed
  loopPc,     \* the loop thread in simulation_loop()
  iteration,  \* the local iteration of simulation_loop
  sleepT,     \* seconds of time.sleep(interval) that have passed
  made,       \* the records generated in the current tick, in order
  call,       \* the activation of send_to_xapp, if any
  passed,     \* every (record, destination) send_to_xapp was called with
  returned,   \* the number of calls of send_to_xapp that have ended
  outcomes,   \* what each call of the tick in progress produced: return value,
              \* log record, requests issued
  generated   \* what a generator called on its own returned or raised

vars == <<cells, running, mainPc, graceT, loopPc, iteration, sleepT, made, call,
          passed, returned, outcomes, generated>>

NoRecord == [kind |-> "none", tick |-> 0, serializable |-> TRUE]
NoResult == [status |-> 0, exc |-> "none"]
NoCall == [stage |-> "none", name |-> "", data |-> NoRecord, t |-> 0,
           requests |-> 0, result |-> NoResult, ret |-> FALSE]

\* The record a generator returns in tick n: every field is a float, an int or a
\* string, so it always serializes.
Generate(kind, n) == [kind |-> kind, tick |-> n, serializable |-> TRUE]

\* The elements of a list.
Range(seq) == {seq[i] : i \in 1..Len(seq)}

\* ----------------------------------------------------------- the generators
\* Floats are fixed-point numbers in hundredths: 0.1 is 10 and 99.9 is 9990.

\* The draws of random.uniform(r[1], r[2]) that are explored: both ends of the
\* range and those of the given inner points that lie in it.
Uniform(r, inner) == {r[1], r[2]} \cup {x \in inner : r[1] <= x /\ x <= r[2]}

Max(a, b) == IF a >= b THEN a ELSE b
Min(a, b) == IF a <= b THEN a ELSE b

\* f"ue_{n:03d}": the decimal digits of n, padded with zeros to three.
UeId(n) ==
  "ue_" \o (IF n < 10 THEN "00" ELSE IF n < 100 THEN "0" ELSE "") \o ToString(n)

\* The 'name' entries of the list measurements, in the order of the literal.
KpiNames ==
  <<"DRB.PacketLossDl", "DRB.PacketLossUl", "DRB.UEThpDl", "DRB.UEThpUl",
    "RRU.PrbUsedDl", "RRU.PrbUsedUl", "UE.RSRP", "UE.RSRQ", "UE.SINR",
    "RRC.ConnEstabSucc">>

\* The ranges with the connection success rate drawn up to 100.0.
KpiRangesFullPercent ==
  <<<<10, 500>>, <<10, 500>>, <<1000, 10000>>, <<500, 5000>>, <<3000, 8500>>,
    <<2000, 7000>>, <<-12000, -8000>>, <<-1500, -500>>, <<500, 2500>>,
    <<9500, 10000>>>>

\* The arguments of random.uniform of the 'value' entries, in the same order.
KpiRanges ==
  <<<<10, 500>>, <<10, 500>>, <<1000, 10000>>, <<500, 5000>>, <<3000, 8500>>,
    <<2000, 7000>>, <<-12000, -8000>>, <<-1500, -500>>, <<500, 2500>>,
    <<9500, 9990>>>>

\* The dict generate_kpi_indication returns (the timestamp and indication_sn,
\* which are clock readings, left out).
KpiIndication(cell, ue, values) ==
  [cell_id |-> cell,
   ue_id |-> UeId(ue),
   measurements |-> [i \in 1..Len(KpiNames) |->
                       [name |-> KpiNames[i], value |-> values[i]]],
   indication_type |-> "report"]

\* The arguments of random.uniform for rsrp and rsrq of a handover event.
RsrpRange == <<-12000, -8000>>
RsrqRange == <<-1500, -500>>

\* The candidates with the source cell left in.
CandidatesAll(cs, source) == cs

\* [c for c in self.config['cells'] if c != source_cell]
Candidates(cs, source) == SelectSeq(cs, LAMBDA c : c # source)

\* The dict generate_handover_event returns (timestamp left out).
HandoverEvent(source, target, ue, rsrp, rsrq) ==
  [event_type |-> "handover_request",
   ue_id |-> UeId(ue),
   source_cell |-> source,
   target_cell |-> target,
   rsrp |-> rsrp,
   rsrq |-> rsrq,
   trigger |-> "A3_event"]

\* The arguments of random.uniform in generate_qoe_metrics.
BitrateRange == <<200, 1000>>
PacketLossRange == <<0, 200>>
LatencyRange == <<1000, 10000>>
JitterRangeWide == <<100, 6000>>
JitterRange == <<100, 2000>>

\* Inner draws that are explored: latencies at and around the 50.0 of the
\* latency penalty (even hundredths, which the division by 2.0 halves exactly).
PacketLossInner == {100}
LatencyInner == {4998, 5000, 5002, 7500}
JitterInner == {1000}

\* The score with the latency penalty not halved.
QoeScoreLatencyUnhalved(packet_loss, latency, jitter) ==
  LET s1 == 10000 - packet_loss * 5
      s2 == s1 - Max(0, latency - 5000)
      s3 == s2 - jitter * 2
  IN Max(0, Min(10000, s3))

\* qoe_score as lines 146-150 compute it, statement by statement.
QoeScore(packet_loss, latency, jitter) ==
  LET s1 == 10000 - packet_loss * 5
      s2 == s1 - Max(0, (latency - 5000) \div 2)
      s3 == s2 - jitter * 2
  IN Max(0, Min(10000, s3))

\* The dict generate_qoe_metrics returns (timestamp left out).
QoeMetrics(ue, cell, video_bitrate, packet_loss, latency, jitter) ==
  [ue_id |-> UeId(ue),
   cell_id |-> cell,
   metrics |-> [video_bitrate_mbps |-> video_bitrate,
                packet_loss_percent |-> packet_loss,
                latency_ms |-> latency,
                jitter_ms |-> jitter,
                qoe_score |-> QoeScore(packet_loss, latency, jitter)]]

\* What a call of a generator ended with.
NoGenerated == [gen |-> "none", raised |-> "none", rec |-> <<>>]
Gives(gen, rec) == [gen |-> gen, raised |-> "none", rec |-> rec]
Raises(gen) == [gen |-> gen, raised |-> "IndexError", rec |-> <<>>]

\* A generator called on the constructed simulator, outside the loop, ends.
EndGenerator(result) ==
  /\ generated' = result
  /\ UNCHANGED <<cells, running, mainPc, graceT, loopPc, iteration, sleepT,
                 made, call, passed, returned, outcomes>>

generate_kpi_indication ==
  /\ generated = NoGenerated
  /\ IF cells = <<>>
     THEN EndGenerator(Raises("kpi"))
     ELSE \E c \in 1..Len(cells), ue \in Ues,
             pick \in [1..Len(KpiRanges) -> 1..2] :
            EndGenerator(Gives("kpi",
              KpiIndication(cells[c], ue,
                            [i \in 1..Len(KpiRanges) |-> KpiRanges[i][pick[i]]])))

generate_handover_event ==
  /\ generated = NoGenerated
  /\ IF cells = <<>>
     THEN EndGenerator(Raises("handover"))
     ELSE \E s \in 1..Len(cells) :
            LET source_cell == cells[s]
                candidates == Candidates(cells, source_cell)
            IN IF candidates = <<>>
               THEN EndGenerator(Raises("handover"))
               ELSE \E t \in 1..Len(candidates), ue \in Ues,
                       rsrp \in Uniform(RsrpRange, {}),
                       rsrq \in Uniform(RsrqRange, {}) :
                      EndGenerator(Gives("handover",
                        HandoverEvent(source_cell, candidates[t], ue, rsrp,
                                      rsrq)))

generate_qoe_metrics ==
  /\ generated = NoGenerated
  /\ \E ue \in Ues,
        video_bitrate \in Uniform(BitrateRange, {}),
        packet_loss \in Uniform(PacketLossRange, PacketLossInner),
        latency \in Uniform(LatencyRange, LatencyInner),
        jitter \in Uniform(JitterRange, JitterInner) :
       IF cells = <<>>
       THEN EndGenerator(Raises("qoe"))
       ELSE \E c \in 1..Len(cells) :
              EndGenerator(Gives("qoe",
                QoeMetrics(ue, cells[c], video_bitrate, packet_loss, latency,
                           jitter)))

\* random.choice of an empty list raises IndexError: the list of cells in every
\* generator, and the list of target candidates in generate_handover_event,
\* which is empty for every source cell when no two cells differ.
GeneratorFails(kind, cs) ==
  \/ cs = <<>>
  \/ kind = "handover" /\ \A i \in 1..Len(cs) : Candidates(cs, cs[i]) = <<>>

\* The destinations with the QoE record sent to kpimon.
DestQoeToKpimon(kind) ==
  CASE kind = "kpi" -> "kpimon"
    [] kind = "handover" -> "traffic-steering"
    [] kind = "qoe" -> "kpimon"
    [] kind = "control" -> "ran-control"

\* The destination simulation_loop passes each kind of record to.
Dest(kind) ==
  CASE kind = "kpi" -> "kpimon"
    [] kind = "handover" -> "traffic-steering"
    [] kind = "qoe" -> "qoe-predictor"
    [] kind = "control" -> "ran-control"

\* The lookup with a default entry for a missing name.
RegisteredAlways(name) == TRUE

\* self.config['xapps'].get(xapp_name) finds an entry.
Registered(name) == name \in Xapps

\* ------------------------------------------------------------ send_to_xapp
\* Respond with `except Exception` left out: only ConnectionError is caught.
RespondReraise(r) ==
  IF r.exc = "none"
  THEN IF r.status = 200
       THEN [raised |-> FALSE, ret |-> TRUE, level |-> "debug",
             msg |-> "Successfully sent data to", detail |-> ""]
       ELSE [raised |-> FALSE, ret |-> FALSE, level |-> "warning",
             msg |-> "Failed to send to", detail |-> ToString(r.status)]
  ELSE IF IsConnectionError(r.exc)
       THEN [raised |-> FALSE, ret |-> FALSE, level |-> "debug",
             msg |-> "Connection error for", detail |-> ""]
       ELSE [raised |-> TRUE, ret |-> FALSE, level |-> "none",
             msg |-> "", detail |-> r.exc]

\* What send_to_xapp does with the end of requests.post: the return value and the
\* log record, or the exception it lets through (none: `except Exception` is last).
Respond(r) ==
  IF r.exc = "none"
  THEN IF r.status = 200
       THEN [raised |-> FALSE, ret |-> TRUE, level |-> "debug",
             msg |-> "Successfully sent data to", detail |-> ""]
       ELSE [raised |-> FALSE, ret |-> FALSE, level |-> "warning",
             msg |-> "Failed to send to", detail |-> ToString(r.status)]
  ELSE IF IsConnectionError(r.exc)
       THEN [raised |-> FALSE, ret |-> FALSE, level |-> "debug",
             msg |-> "Connection error for", detail |-> ""]
       ELSE [raised |-> FALSE, ret |-> FALSE, level |-> "error",
             msg |-> "Error sending to", detail |-> r.exc]

\* The branch for a name config['xapps'] does not hold.
UnknownXapp ==
  [raised |-> FALSE, ret |-> FALSE, level |-> "error",
   msg |-> "Unknown xApp", detail |-> ""]

Outcome(c, o, r, n) ==
  [name |-> c.name, data |-> c.data, result |-> r, requests |-> n,
   raised |-> o.raised, ret |-> o.ret, level |-> o.level, msg |-> o.msg,
   detail |-> o.detail]

\* The caller's frame once send_to_xapp has ended with o: an exception that
\* send_to_xapp lets through ends simulation_loop, which catches nothing.
Unwind(o) == IF o.raised /\ loopPc \in {"kpi_sent", "ho_sent", "qoe_sent", "ctl_sent"}
             THEN "crashed" ELSE loopPc

Finish(o, r, n) ==
  /\ call' = [call EXCEPT !.stage = IF o.raised THEN "raised" ELSE "returned",
                          !.requests = n, !.result = r, !.ret = o.ret]
  /\ outcomes' = Append(outcomes, Outcome(call, o, r, n))
  /\ returned' = returned + 1
  /\ loopPc' = Unwind(o)

\* Lines 180-193: the lookup, and requests.post up to the request being sent.
SendBegin ==
  /\ mainPc # "exited"
  /\ call.stage = "called"
  /\ IF ~Registered(call.name)
     THEN Finish(UnknownXapp, NoResult, 0)
     ELSE IF ~call.data.serializable
          THEN Finish(Respond(EncodingFailure), EncodingFailure, 0)
          ELSE /\ call' = [call EXCEPT !.stage = "inflight", !.t = 0, !.requests = 1]
               /\ UNCHANGED <<outcomes, returned, loopPc>>
  /\ UNCHANGED <<cells, generated>>
  /\ UNCHANGED <<running, mainPc, graceT, iteration, sleepT, made, passed>>

\* Lines 188-207: requests.post ends, with a timeout exception only once the
\* timeout has passed, and is classified.
SendReturn ==
  /\ mainPc # "exited"
  /\ call.stage = "inflight"
  /\ \E r \in NetResults :
       /\ r.exc \in TimeoutExcs => call.t = Timeout
       /\ Finish(Respond(r), r, call.requests)
  /\ UNCHANGED <<cells, generated>>
  /\ UNCHANGED <<running, mainPc, graceT, iteration, sleepT, made, passed>>

send_to_xapp == SendBegin \/ SendReturn

\* self.send_to_xapp(name, data) is entered.
Enter(name, data) ==
  /\ call' = [NoCall EXCEPT !.stage = "called", !.name = name, !.data = data]
  /\ passed' = Append(passed, [name |-> name, data |-> data])

\* --------------------------------------------------------- simulation_loop
\* Continue with a failed delivery tried again.
ContinueRetryOnFailure(pc, ret) ==
  CASE pc = "kpi_sent" -> IF ret THEN "ho_trial" ELSE "kpi"
    [] pc = "ho_sent" -> IF ret THEN "qoe" ELSE "ho"
    [] pc = "qoe_sent" -> IF ret THEN "ctl_trial" ELSE "qoe"
    [] pc = "ctl_sent" -> IF ret THEN "sleep" ELSE "ctl"

\* Continue with the rest of the tick given up when a delivery returned False.
ContinueAbortOnFailure(pc, ret) ==
  IF ~ret THEN "sleep"
  ELSE CASE pc = "kpi_sent" -> "ho_trial"
         [] pc = "ho_sent" -> "qoe"
         [] pc = "qoe_sent" -> "ctl_trial"
         [] pc = "ctl_sent" -> "sleep"

\* The statement simulation_loop goes on with when the send_to_xapp of a step
\* has returned ret: the return value is discarded.
Continue(pc, ret) ==
  CASE pc = "kpi_sent" -> "ho_trial"
    [] pc = "ho_sent" -> "qoe"
    [] pc = "qoe_sent" -> "ctl_trial"
    [] pc = "ctl_sent" -> "sleep"

\* The loop written as `while True:`.
WhileTrue == TRUE

\* The condition of `while self.running:`, read once per iteration.
WhileCondition == running

LoopHead ==
  /\ mainPc # "exited"
  /\ loopPc = "head"
  /\ IF WhileCondition
     THEN /\ iteration < MaxTicks
          /\ iteration' = iteration + 1
          /\ loopPc' = "kpi"
          /\ made' = <<>>
          /\ outcomes' = <<>>
     ELSE /\ loopPc' = "done"
          /\ UNCHANGED <<iteration, made, outcomes>>
  /\ UNCHANGED <<cells, generated>>
  /\ UNCHANGED <<running, mainPc, graceT, sleepT, call, passed, returned>>

\* One generator call followed by the send_to_xapp call of its record; an
\* exception of the generator is caught nowhere and ends the loop thread.
GenerateAndSend(pc, kind, sent) ==
  /\ mainPc # "exited"
  /\ loopPc = pc
  /\ IF GeneratorFails(kind, cells)
     THEN /\ loopPc' = "crashed"
          /\ UNCHANGED <<made, call, passed>>
     ELSE /\ LET rec == Generate(kind, iteration)
             IN /\ made' = Append(made, rec)
                /\ Enter(Dest(kind), rec)
          /\ loopPc' = sent
  /\ UNCHANGED <<cells, generated>>
  /\ UNCHANGED <<running, mainPc, graceT, iteration, sleepT, returned, outcomes>>

GenKpi == GenerateAndSend("kpi", "kpi", "kpi_sent")
GenHandover == GenerateAndSend("ho", "handover", "ho_sent")
GenQoe == GenerateAndSend("qoe", "qoe", "qoe_sent")
GenControl == GenerateAndSend("ctl", "control", "ctl_sent")

\* The delivery handed to a background task that is not awaited.
ReturnedOrInFlight(c) == c.stage \in {"inflight", "returned"}

\* self.send_to_xapp(...) is a plain call: the statement after it runs when the
\* call has returned.
Returned(c) == c.stage = "returned"

\* The outcomes kept for the tick in progress: the tick is over when the loop
\* reaches its sleep.
EndOfTick(pc) == IF pc = "sleep" THEN <<>> ELSE outcomes

\* send_to_xapp has returned: the logger.info line after it, then the next
\* statement; entering time.sleep starts the sleep.
Resume ==
  /\ mainPc # "exited"
  /\ loopPc \in {"kpi_sent", "ho_sent", "qoe_sent", "ctl_sent"}
  /\ Returned(call)
  /\ loopPc' = Continue(loopPc, call.ret)
  /\ call' = NoCall
  /\ sleepT' = 0
  /\ outcomes' = EndOfTick(loopPc')
  /\ UNCHANGED <<cells, generated>>
  /\ UNCHANGED <<running, mainPc, graceT, iteration, made, passed, returned>>

\* `if random.random() < 0.3:`
HandoverTrial ==
  /\ mainPc # "exited"
  /\ loopPc = "ho_trial"
  /\ \E fire \in BOOLEAN : loopPc' = IF fire THEN "ho" ELSE "qoe"
  /\ UNCHANGED <<cells, generated>>
  /\ UNCHANGED <<running, mainPc, graceT, iteration, sleepT, made, call, passed,
                 returned, outcomes>>

\* The control trial firing only in ticks without a handover.
ControlTrialUnlessHandover ==
  /\ mainPc # "exited"
  /\ loopPc = "ctl_trial"
  /\ \E fire \in (IF \E i \in 1..Len(made) : made[i].kind = "handover"
                  THEN {FALSE} ELSE BOOLEAN) :
       loopPc' = IF fire THEN "ctl" ELSE "sleep"
  /\ sleepT' = 0
  /\ outcomes' = IF loopPc' = "sleep" THEN <<>> ELSE outcomes
  /\ UNCHANGED <<cells, generated>>
  /\ UNCHANGED <<running, mainPc, graceT, iteration, made, call, passed, returned>>

\* `if random.random() < 0.2:`
ControlTrial ==
  /\ mainPc # "exited"
  /\ loopPc = "ctl_trial"
  /\ \E fire \in BOOLEAN : loopPc' = IF fire THEN "ctl" ELSE "sleep"
  /\ sleepT' = 0
  /\ outcomes' = EndOfTick(loopPc')
  /\ UNCHANGED <<cells, generated>>
  /\ UNCHANGED <<running, mainPc, graceT, iteration, made, call, passed, returned>>

\* time.sleep(self.config['interval']) returns.
Wake ==
  /\ mainPc # "exited"
  /\ loopPc = "sleep"
  /\ sleepT = Interval
  /\ iteration < MaxTicks
  /\ loopPc' = "head"
  /\ UNCHANGED <<cells, generated>>
  /\ UNCHANGED <<running, mainPc, graceT, iteration, sleepT, made, call, passed,
                 returned, outcomes>>

simulation_loop ==
  \/ LoopHead
  \/ GenKpi
  \/ HandoverTrial
  \/ GenHandover
  \/ GenQoe
  \/ ControlTrial
  \/ GenControl
  \/ Resume
  \/ Wake

\* ------------------------------------------------------------------- start
\* Lines 245-261: the flag is set, then the daemon thread is started.
Start ==
  /\ mainPc = "init"
  /\ running' = TRUE
  /\ mainPc' = "waiting"
  /\ loopPc' = "head"
  /\ UNCHANGED <<cells, generated>>
  /\ UNCHANGED <<graceT, iteration, sleepT, made, call, passed, returned, outcomes>>

\* The interrupt handled only between deliveries.
InterruptWaitsForDelivery ==
  /\ mainPc = "waiting"
  /\ call.stage = "none"
  /\ running' = FALSE
  /\ mainPc' = "grace"
  /\ graceT' = 0
  /\ UNCHANGED <<cells, generated>>
  /\ UNCHANGED <<loopPc, iteration, sleepT, made, call, passed, returned, outcomes>>

\* The interrupt handler also abandoning the delivery in progress.
InterruptCancelsCall ==
  /\ mainPc = "waiting"
  /\ running' = FALSE
  /\ mainPc' = "grace"
  /\ graceT' = 0
  /\ call' = NoCall
  /\ UNCHANGED <<cells, generated>>
  /\ UNCHANGED <<loopPc, iteration, sleepT, made, passed, returned, outcomes>>

\* Lines 267-270: KeyboardInterrupt in `while True: time.sleep(1)`.
Interrupt ==
  /\ mainPc = "waiting"
  /\ running' = FALSE
  /\ mainPc' = "grace"
  /\ graceT' = 0
  /\ UNCHANGED <<cells, generated>>
  /\ UNCHANGED <<loopPc, iteration, sleepT, made, call, passed, returned, outcomes>>

\* start() returning only once the loop thread has left its loop, as after
\* sim_thread.join().
ExitJoinsLoop ==
  /\ mainPc = "grace"
  /\ graceT = Grace
  /\ loopPc = "done"
  /\ mainPc' = "exited"
  /\ UNCHANGED <<cells, generated>>
  /\ UNCHANGED <<running, graceT, loopPc, iteration, sleepT, made, call, passed,
                 returned, outcomes>>

\* Lines 270-271: time.sleep(2) returns, start() returns and the interpreter
\* exits; the daemon thread is not joined and stops wherever it is.
Exit ==
  /\ mainPc = "grace"
  /\ graceT = Grace
  /\ mainPc' = "exited"
  /\ UNCHANGED <<cells, generated>>
  /\ UNCHANGED <<running, graceT, loopPc, iteration, sleepT, made, call, passed,
                 returned, outcomes>>

start == Start \/ Interrupt \/ Exit

\* -------------------------------------------------------------------- time
MainBlocked == mainPc \in {"init", "waiting"} \/ (mainPc = "grace" /\ graceT < Grace)

LoopBlocked ==
  \/ loopPc \in {"idle", "done", "crashed"}
  \/ loopPc = "sleep" /\ (sleepT < Interval \/ iteration >= MaxTicks)

\* No call of send_to_xapp is at a statement it can execute: there is none, or
\* it waits in requests.post. timeout=5 bounds the wait for the connection and
\* for each read, not the whole request, so the wait may go on.
CallBlocked == call.stage \in {"none", "returned", "raised", "inflight"}

\* One second passes: only while every thread is blocked in a sleep or in a
\* request; call.t counts the seconds of the request up to the timeout.
Tick ==
  /\ MainBlocked
  /\ CallBlocked
  /\ call.stage = "inflight" \/ LoopBlocked
  /\ graceT' = IF mainPc = "grace" THEN graceT + 1 ELSE graceT
  /\ call' = IF call.stage = "inflight"
             THEN [call EXCEPT !.t = Min(call.t + 1, Timeout)] ELSE call
  /\ sleepT' = IF loopPc = "sleep" /\ sleepT < Interval THEN sleepT + 1 ELSE sleepT
  /\ UNCHANGED <<cells, generated>>
  /\ UNCHANGED <<running, mainPc, loopPc, iteration, made, passed, returned, outcomes>>

\* ---------------------------------------------------------- specifications
\* The state of a simulator constructed with the list cs as config['cells'].
Constructed(cs) ==
  /\ cells = cs
  /\ running = FALSE
  /\ mainPc = "init"
  /\ graceT = 0
  /\ loopPc = "idle"
  /\ iteration = 0
  /\ sleepT = 0
  /\ made = <<>>
  /\ call = NoCall
  /\ passed = <<>>
  /\ returned = 0
  /\ outcomes = <<>>
  /\ generated = NoGenerated

Init == Constructed(ConfiguredCells)

Next == start \/ simulation_loop \/ send_to_xapp \/ Tick

Spec == Init /\ [][Next]_vars

\* A caller that uses the delivery client directly, with any destination name and
\* any record, on a simulator that was constructed and not started.
TestData == {[kind |-> "kpi", tick |-> 0, serializable |-> s] : s \in BOOLEAN}

Deliver ==
  /\ loopPc = "idle"
  /\ call.stage \in {"none", "returned"}
  /\ Len(passed) < MaxCalls
  /\ \E name \in Xapps \cup UnknownNames, data \in TestData : Enter(name, data)
  /\ UNCHANGED <<cells, generated>>
  /\ UNCHANGED <<running, mainPc, graceT, loopPc, iteration, sleepT, made, returned,
                 outcomes>>

NextDeliver == Deliver \/ send_to_xapp \/ Tick

SpecDeliver == Init /\ [][NextDeliver]_vars

\* The program with a shorter list of cells supplied as config['cells'].
LoopCellConfigs == {<<"cell_001">>, <<"cell_001", "cell_002">>}

InitCells == \E cs \in LoopCellConfigs : Constructed(cs)

SpecCells == InitCells /\ [][Next]_vars

\* The generators called on a simulator constructed with one of these lists of
\* cells: none, one, the same cell twice, two, and the three of __init__.
GenCellConfigs ==
  {<<>>, <<"cell_001">>, <<"cell_001", "cell_001">>,
   <<"cell_001", "cell_002">>, ConfiguredCells}

InitGen == \E cs \in GenCellConfigs : Constructed(cs)

NextGen ==
  generate_kpi_indication \/ generate_handover_event \/ generate_qoe_metrics

SpecGen == InitGen /\ [][NextGen]_vars

\* The loop thread is scheduled, requests.post ends, and time
\* passes; nothing makes the interrupt arrive or the caller of Deliver call.
FairSpec ==
  /\ Spec
  /\ WF_vars(simulation_loop)
  /\ WF_vars(send_to_xapp)
  /\ WF_vars(Tick)

\* Both threads are scheduled and time passes, but requests.post need not end:
\* the loop thread may stay in a request for ever.
FairExitSpec ==
  /\ Spec
  /\ WF_vars(simulation_loop)
  /\ WF_vars(SendBegin)
  /\ WF_vars(Exit)
  /\ WF_vars(Tick)

\* ------------------------------------------------------------------ claims
\* The calls of send_to_xapp made in the current tick.
ThisTick == SelectSeq(passed, LAMBDA p : p.data.tick = iteration)

\* The place of each destination in the order of a tick.
Place(name) ==
  CASE name = "kpimon" -> 1
    [] name = "traffic-steering" -> 2
    [] name = "qoe-predictor" -> 3
    [] name = "ran-control" -> 4
    [] OTHER -> 0

InCall == call.stage \in {"called", "inflight"}

\* C1, the state part: the deliveries of a tick are started in the order kpimon,
\* traffic-steering, qoe-predictor, ran-control, the ticks of the deliveries never
\* go back, and at most one delivery is started and not yet returned.
C1_Ordered ==
  /\ \A i, j \in 1..Len(ThisTick) :
       i < j => Place(ThisTick[i].name) < Place(ThisTick[j].name)
  /\ \A i, j \in 1..Len(passed) : i < j => passed[i].data.tick <= passed[j].data.tick
  /\ Len(passed) - returned = IF InCall THEN 1 ELSE 0
  /\ loopPc \notin {"sleep", "head", "done"}
       => Len(outcomes) = Len(ThisTick) - (Len(passed) - returned)

\* C1: within every tick the deliveries run one after the other in the order KPI,
\* optional handover, QoE, optional control: a delivery starts only when every
\* earlier delivery of the tick has returned, and a tick starts only when every
\* delivery of the tick before it has returned.
C1_SequentialDeliveries ==
  /\ []C1_Ordered
  /\ [][Len(passed') > Len(passed) => ~InCall /\ returned = Len(passed)]_vars
  /\ [][iteration' # iteration => ~InCall /\ returned = Len(passed)]_vars

\* C1 witness: in the second tick all four deliveries were started, the last one
\* is in flight and the three before it have returned.
C1_Witness ==
  /\ iteration = 2
  /\ Len(ThisTick) = 4
  /\ Len(outcomes) = 3
  /\ returned = Len(passed) - 1
  /\ call.stage = "inflight"
  /\ call.name = "ran-control"

\* The statement after each delivery when the delivery succeeded.
AfterDelivered(pc) ==
  CASE pc = "kpi_sent" -> "ho_trial"
    [] pc = "ho_sent" -> "qoe"
    [] pc = "qoe_sent" -> "ctl_trial"
    [] pc = "ctl_sent" -> "sleep"
    [] OTHER -> pc

SentPcs == {"kpi_sent", "ho_sent", "qoe_sent", "ctl_sent"}

\* The kinds of the records generated so far in the current tick.
MadeKinds == {made[i].kind : i \in 1..Len(made)}

\* C2: failures are isolated per delivery: whatever a delivery returned, the loop
\* goes on with the statement it goes on with after a successful delivery, every
\* tick that reaches its sleep has generated and sent its KPI and QoE records, and
\* no outcome of an earlier delivery takes away the handover or the control trial.
C2_FailureIsolation ==
  /\ [][(loopPc' # loopPc /\ loopPc \in SentPcs) => loopPc' = AfterDelivered(loopPc)]_vars
  /\ [](loopPc = "sleep" => {"kpi", "qoe"} \subseteq MadeKinds)
  /\ [](loopPc \in {"ho_trial", "ctl_trial"} /\ mainPc # "exited"
          => ENABLED HandoverTrial \/ ENABLED ControlTrial)

\* C2 witness: the KPI delivery was Unreachable and the handover delivery failed
\* with another exception, and the QoE delivery of the same tick is in flight.
C2_Witness ==
  /\ Len(outcomes) = 2
  /\ outcomes[1].name = "kpimon"
  /\ outcomes[1].msg = "Connection error for"
  /\ outcomes[2].name = "traffic-steering"
  /\ outcomes[2].level = "error"
  /\ loopPc = "qoe_sent"
  /\ call.stage = "inflight"
  /\ call.name = "qoe-predictor"

\* C3: no outcome of a delivery ends the loop: send_to_xapp lets no exception
\* through, the loop thread leaves the while loop only at the loop head with the
\* running flag read as false, a returned delivery, failed or not, is always
\* followed by the next statement of the loop, and unless the flag is set to
\* false tick follows tick up to the last tick explored.
C3_LoopSurvivesFailures ==
  /\ running ~> (~running \/ iteration = MaxTicks)
  /\ [](loopPc # "crashed" /\ call.stage # "raised")
  /\ [][loopPc' = "done" /\ loopPc # "done" => loopPc = "head" /\ ~running]_vars
  /\ [](loopPc \in SentPcs /\ call.stage = "returned" /\ mainPc # "exited"
          => ENABLED Resume)
  /\ [](loopPc = "head" /\ running /\ iteration < MaxTicks /\ mainPc # "exited"
          => ENABLED LoopHead)

\* C3 witness: in the second tick the KPI delivery ended with an exception other
\* than a connection error, and the loop went on to the handover trial.
C3_Witness ==
  /\ iteration = 2
  /\ running
  /\ loopPc = "ho_trial"
  /\ Len(outcomes) = 1
  /\ outcomes[1].level = "error"
  /\ outcomes[1].result.exc = "ReadTimeout"

\* C4: once the running flag is false, the loop-head check goes to the loop exit
\* and never into a tick: the iteration count stays, and from the loop head, the
\* sleep or the exit no record is generated or delivered any more.
C4_NoNewTickAfterShutdown ==
  /\ [][~running => iteration' = iteration]_vars
  /\ [][~running /\ loopPc = "head" /\ loopPc' # loopPc => loopPc' = "done"]_vars
  /\ [][~running /\ loopPc \in {"head", "sleep", "done"}
          => /\ passed' = passed
             /\ made' = made
             /\ loopPc' \in {"head", "sleep", "done"}]_vars

\* C4 witness: the flag was set to false, the loop woke from a full sleep after a
\* tick, read the flag at the loop head and left the loop within the grace period.
C4_Witness ==
  /\ ~running
  /\ mainPc = "grace"
  /\ loopPc = "done"
  /\ iteration = 1
  /\ sleepT = Interval

\* C5: on shutdown the current tick is completed: when the process has exited
\* after the grace period, the loop thread is not inside a tick (it is asleep
\* after the tick, at the loop head or out of the loop).
C5_CompletesCurrentTick ==
  mainPc = "exited" => loopPc \in {"sleep", "head", "done"}

Unknown(o) == o.name \notin Xapps

\* C6: a destination name absent from config['xapps'] yields a failure without
\* any request: the call returns False with the error record "Unknown xApp",
\* issues no request, is never in flight, and leaves the running flag, the
\* iteration count and the loop thread as they were.
C6_UnknownNeverSends ==
  /\ [](\A i \in 1..Len(outcomes) :
          Unknown(outcomes[i]) =>
            /\ outcomes[i].requests = 0
            /\ ~outcomes[i].ret
            /\ ~outcomes[i].raised
            /\ outcomes[i].level = "error"
            /\ outcomes[i].msg = "Unknown xApp")
  /\ [](call.stage # "none" /\ call.name \notin Xapps
          => call.stage \in {"called", "returned"} /\ call.requests = 0)
  /\ [][(call.stage = "called" /\ call.name \notin Xapps)
          => /\ call'.stage = "returned"
             /\ ~call'.ret
             /\ UNCHANGED <<running, mainPc, loopPc, iteration, made, passed>>]_vars

\* C6 witness: a call with a registered name issued its request, and the next
\* call, with an unknown name, has returned.
C6_Witness ==
  /\ Len(outcomes) = 2
  /\ outcomes[1].requests = 1
  /\ Unknown(outcomes[2])
  /\ call.stage = "returned"
  /\ call.name \notin Xapps

\* C7: an unknown destination name is signaled distinctly from every network
\* failure: its return value and log severity differ from those of each failed
\* delivery (Rejected, Unreachable, Malformed) to a registered destination.
C7_UnknownSignaledDistinctly ==
  \A i, j \in 1..Len(outcomes) :
    (Unknown(outcomes[i]) /\ ~Unknown(outcomes[j]) /\ ~outcomes[j].ret)
      => <<outcomes[i].ret, outcomes[i].level>> # <<outcomes[j].ret, outcomes[j].level>>

\* A success status of HTTP.
IsSuccessStatus(s) == s \in 200..299

\* C8: send_to_xapp never raises, and for a registered destination it returns
\* Delivered (True) exactly when the endpoint answered with a success status,
\* Rejected (False, warning) when it answered with a non-success status,
\* Unreachable (False, debug) when the connection could not be established, and
\* Malformed (False, error) for any other exception.
C8_OutcomeClassification ==
  /\ call.stage # "raised"
  /\ \A i \in 1..Len(outcomes) :
       LET o == outcomes[i]
           answered == o.result.exc = "none"
       IN ~Unknown(o) =>
            /\ ~o.raised
            /\ o.ret <=> (answered /\ IsSuccessStatus(o.result.status))
            /\ (answered /\ ~IsSuccessStatus(o.result.status))
                 => (~o.ret /\ o.level = "warning")
            /\ IsConnectionError(o.result.exc) => (~o.ret /\ o.level = "debug")
            /\ (~answered /\ ~IsConnectionError(o.result.exc))
                 => (~o.ret /\ o.level = "error")

RECURSIVE Requests(_)
\* The requests the returned calls in a sequence of outcomes issued.
Requests(os) == IF os = <<>> THEN 0 ELSE Head(os).requests + Requests(Tail(os))

\* The requests issued in the current tick, the call in progress included.
RequestsThisTick == Requests(outcomes) + (IF InCall THEN call.requests ELSE 0)

\* C9: there are no retries: a call of send_to_xapp issues at most one request
\* whatever its outcome, the records passed to send_to_xapp in a tick are the
\* records generated in it, each once and in order, no record is passed twice in
\* the same or a later tick, and the requests of a tick never exceed its records,
\* which are at most 4.
C9_NoRetries ==
  /\ call.requests <= 1
  /\ \A i \in 1..Len(outcomes) : outcomes[i].requests <= 1
  /\ Len(ThisTick) = Len(made)
  /\ \A i \in 1..Len(made) : i <= Len(ThisTick) => ThisTick[i].data = made[i]
  /\ \A i, j \in 1..Len(passed) : i < j => passed[i].data # passed[j].data
  /\ RequestsThisTick <= Len(made)
  /\ Len(made) <= 4

\* C9 witness: in the second tick every delivery so far failed, four records were
\* generated and four requests issued.
C9_Witness ==
  /\ iteration = 2
  /\ Len(made) = 4
  /\ RequestsThisTick = 4
  /\ Len(outcomes) = 4
  /\ \A i \in 1..4 : ~outcomes[i].ret

\* The destination of each kind of record.
OwnDest(kind) ==
  CASE kind = "kpi" -> "kpimon"
    [] kind = "handover" -> "traffic-steering"
    [] kind = "qoe" -> "qoe-predictor"
    [] kind = "control" -> "ran-control"
    [] OTHER -> ""

\* The deliveries of the current tick of a kind of record to a destination.
Count(kind, name) ==
  Cardinality({i \in 1..Len(ThisTick) :
                 ThisTick[i].data.kind = kind /\ ThisTick[i].name = name})

\* The tick is completed: the loop sleeps after it, or has woken up from that sleep.
TickCompleted == loopPc = "sleep" \/ (loopPc \in {"head", "done"} /\ iteration >= 1)

\* C10: every completed tick has delivered exactly one KPI record to kpimon and
\* exactly one QoE record to qoe-predictor, at most one handover event to
\* traffic-steering and at most one control event to ran-control, and no record is
\* ever delivered to a destination other than its own.
C10_TickDeliveries ==
  /\ \A i \in 1..Len(passed) : passed[i].name = OwnDest(passed[i].data.kind)
  /\ TickCompleted =>
       /\ Count("kpi", "kpimon") = 1
       /\ Count("qoe", "qoe-predictor") = 1
       /\ Count("handover", "traffic-steering") <= 1
       /\ Count("control", "ran-control") <= 1
       /\ Len(ThisTick) = Count("kpi", "kpimon") + Count("qoe", "qoe-predictor")
                          + Count("handover", "traffic-steering")
                          + Count("control", "ran-control")

\* C10 witness: the second tick is completed with only its KPI and QoE deliveries,
\* after a first tick with all four.
C10_Witness ==
  /\ loopPc = "sleep"
  /\ iteration = 2
  /\ Len(ThisTick) = 2
  /\ Len(passed) = 6

\* ------------------------------------------------ handover with one cell
\* C11: with fewer than two cells configured, a handover step that fires fails
\* for itself alone: no handover record is made or delivered, and the step the
\* loop thread takes from it leads to the QoE step of the same tick.
C11_HandoverFailureIsolated ==
  [][(loopPc = "ho" /\ Cardinality(Range(cells)) < 2 /\ loopPc' # loopPc)
       => (loopPc' = "qoe" /\ made' = made /\ passed' = passed)]_vars

\* ------------------------------------------------------ generated records
Generated(gen) == generated.gen = gen /\ generated.raised = "none"

\* C12: every handover event generated from at least two configured cells has a
\* target_cell different from its source_cell, and both are configured cells,
\* whatever the random choices were.
C12_TargetDiffersFromSource ==
  (Generated("handover") /\ Cardinality(Range(cells)) >= 2) =>
    /\ generated.rec.target_cell # generated.rec.source_cell
    /\ generated.rec.source_cell \in Range(cells)
    /\ generated.rec.target_cell \in Range(cells)

C12_Witness ==
  /\ Generated("handover")
  /\ cells = ConfiguredCells
  /\ generated.rec.source_cell = "cell_003"
  /\ generated.rec.target_cell = "cell_001"

\* The metrics of the generated QoE record, if one was generated.
QoeRecords == IF Generated("qoe") THEN {generated.rec.metrics} ELSE {}

\* C13: in every generated QoE record, qoe_score is
\* clamp(100 - 5*packet_loss_percent - max(0, (latency_ms - 50)/2) - 2*jitter_ms,
\* 0, 100) of the packet loss, latency and jitter of the same record (stated
\* doubled, in hundredths, without division); at packet loss 0, latency 50,
\* jitter 1 it is 98 and at packet loss 2, latency 100, jitter 20 it is 25; the
\* bitrate does not enter.
C13_QoeScoreFormula ==
  \A m \in QoeRecords :
    LET twice == 20000 - 10 * m.packet_loss_percent
                 - (IF m.latency_ms > 5000 THEN m.latency_ms - 5000 ELSE 0)
                 - 4 * m.jitter_ms
        clamped == IF twice < 0 THEN 0 ELSE IF twice > 20000 THEN 20000 ELSE twice
    IN /\ 2 * m.qoe_score = clamped
       /\ (m.packet_loss_percent = 0 /\ m.latency_ms = 5000 /\ m.jitter_ms = 100)
            => m.qoe_score = 9800
       /\ (m.packet_loss_percent = 200 /\ m.latency_ms = 10000
           /\ m.jitter_ms = 2000) => m.qoe_score = 2500

C13_Witness ==
  \E m \in QoeRecords :
    /\ m.packet_loss_percent = 100
    /\ m.latency_ms = 7500
    /\ m.jitter_ms = 1000
    /\ m.video_bitrate_mbps = 1000
    /\ m.qoe_score = 6250

\* The generated KPI record, if one was generated.
KpiRecords == IF Generated("kpi") THEN {generated.rec} ELSE {}

\* C14: every generated KPI record has exactly ten measurements, named
\* DRB.PacketLossDl, DRB.PacketLossUl, DRB.UEThpDl, DRB.UEThpUl, RRU.PrbUsedDl,
\* RRU.PrbUsedUl, UE.RSRP, UE.RSRQ, UE.SINR, RRC.ConnEstabSucc in this order,
\* each value within its documented range (in hundredths), its cell_id one of
\* the configured cells and its ue_id the identifier of one of the UEs 1..20.
C14_KpiRecordShape ==
  \A r \in KpiRecords :
    LET ms == r.measurements
        In(i, lo, hi) == lo <= ms[i].value /\ ms[i].value <= hi
    IN /\ DOMAIN ms = 1..10
       /\ [i \in 1..10 |-> ms[i].name] =
            <<"DRB.PacketLossDl", "DRB.PacketLossUl", "DRB.UEThpDl",
              "DRB.UEThpUl", "RRU.PrbUsedDl", "RRU.PrbUsedUl", "UE.RSRP",
              "UE.RSRQ", "UE.SINR", "RRC.ConnEstabSucc">>
       /\ In(1, 10, 500) /\ In(2, 10, 500)
       /\ In(3, 1000, 10000) /\ In(4, 500, 5000)
       /\ In(5, 3000, 8500) /\ In(6, 2000, 7000)
       /\ In(7, -12000, -8000) /\ In(8, -1500, -500)
       /\ In(9, 500, 2500) /\ In(10, 9500, 9990)
       /\ r.cell_id \in Range(cells)
       /\ r.ue_id \in {"ue_001", "ue_002", "ue_003", "ue_004", "ue_005",
                       "ue_006", "ue_007", "ue_008", "ue_009", "ue_010",
                       "ue_011", "ue_012", "ue_013", "ue_014", "ue_015",
                       "ue_016", "ue_017", "ue_018", "ue_019", "ue_020"}

C14_Witness ==
  \E r \in KpiRecords :
    /\ r.cell_id = "cell_002"
    /\ r.ue_id = "ue_020"
    /\ r.measurements[1].value = 10
    /\ r.measurements[7].value = -12000
    /\ r.measurements[10].value = 9990

\* ------------------------------------------------------ the two threads
\* What the loop thread works on: its position, its records and its delivery.
loopState == <<loopPc, iteration, made, call.stage, call.name, call.data,
               call.requests, call.result, call.ret, passed, returned,
               outcomes, generated>>

\* C15: the scheduler is Idle (running false) or Running (running true); the
\* flag changes only from false to true by start and from true to false by the
\* shutdown request, both steps of the control thread; steps of the loop
\* thread leave the flag and the control thread as they are; steps of the
\* control thread leave generator and delivery state as it is (start only
\* starts the loop thread), and whether the control thread can step depends
\* on its own position and timer alone.
C15_OnlyTheFlagIsShared ==
  /\ [](running \in BOOLEAN)
  /\ [][(running' # running) =>
          \/ ~running /\ running' /\ mainPc = "init" /\ mainPc' = "waiting"
          \/ running /\ ~running' /\ mainPc = "waiting" /\ mainPc' = "grace"]_vars
  /\ [][(loopState' # loopState /\ loopPc # "idle") =>
          UNCHANGED <<running, mainPc, graceT>>]_vars
  /\ [][(mainPc' # mainPc) =>
          /\ UNCHANGED <<iteration, sleepT, made, call, passed, returned,
                         outcomes, generated, cells>>
          /\ loopPc' = (IF mainPc = "init" THEN "head" ELSE loopPc)]_vars
  /\ [](ENABLED start <=> \/ mainPc \in {"init", "waiting"}
                          \/ mainPc = "grace" /\ graceT = Grace)

C15_Witness ==
  /\ ~running
  /\ mainPc = "grace"
  /\ call.stage = "inflight"
  /\ call.name = "qoe-predictor"
  /\ Len(outcomes) = 2
  /\ iteration = 2

\* C16: a blocked delivery does not block the shutdown request: whenever the
\* control thread waits for the interrupt and the loop thread is inside a call
\* of send_to_xapp or in its sleep, the interrupt handler can run at once, and
\* in that one step it sets the running flag to false with the loop thread
\* where it was.
C16_ShutdownNeverBlocked ==
  (mainPc = "waiting" /\ (InCall \/ loopPc = "sleep")) =>
    ENABLED (Interrupt /\ ~running' /\ loopPc' = loopPc /\ call' = call
             /\ sleepT' = sleepT)

C16_Witness ==
  /\ mainPc = "grace"
  /\ graceT = 0
  /\ ~running
  /\ call.stage = "inflight"
  /\ call.t = Timeout - 1
  /\ call.name = "kpimon"
  /\ iteration = 1

\* ------------------------------------------------------------ the trials
\* C17: the two trials do not interact: whenever the loop thread is at the
\* handover trial, firing and not firing are both possible, and whenever it is
\* at the control trial, firing and not firing are both possible, whether or
\* not the handover fired in this tick and whatever the deliveries of this
\* tick and the earlier ticks produced.
C17_TrialsIndependent ==
  /\ (loopPc = "ho_trial" /\ mainPc # "exited") =>
       /\ ENABLED (HandoverTrial /\ loopPc' = "ho")
       /\ ENABLED (HandoverTrial /\ loopPc' = "qoe")
  /\ (loopPc = "ctl_trial" /\ mainPc # "exited") =>
       /\ ENABLED (ControlTrial /\ loopPc' = "ctl")
       /\ ENABLED (ControlTrial /\ loopPc' = "sleep")

\* In the second tick, after a handover that fired and a failed KPI delivery
\* and a failed handover delivery, the control trial has fired.
C17_Witness ==
  /\ iteration = 2
  /\ loopPc = "ctl"
  /\ MadeKinds = {"kpi", "handover", "qoe"}
  /\ Len(outcomes) = 3
  /\ ~outcomes[1].ret
  /\ ~outcomes[2].ret
  /\ outcomes[3].ret

\* ---------------------------------------------------------- the QoE clamp
\* C18: the packet loss, latency and jitter of a generated QoE record lie in
\* [0, 2], [10, 100] and [1, 20]; the score before the clamp then lies in
\* [25, 98], so qoe_score equals it and is neither 0 nor 100 (in hundredths,
\* the unclamped score stated doubled to avoid the division).
C18_ClampNeverActs ==
  \A m \in QoeRecords :
    LET twice == 20000 - 10 * m.packet_loss_percent
                 - (IF m.latency_ms > 5000 THEN m.latency_ms - 5000 ELSE 0)
                 - 4 * m.jitter_ms
    IN /\ 0 <= m.packet_loss_percent /\ m.packet_loss_percent <= 200
       /\ 1000 <= m.latency_ms /\ m.latency_ms <= 10000
       /\ 100 <= m.jitter_ms /\ m.jitter_ms <= 2000
       /\ 2 * 2500 <= twice /\ twice <= 2 * 9800
       /\ 2 * m.qoe_score = twice
       /\ m.qoe_score \notin {0, 10000}

\* The lowest score: packet loss 2, latency 100, jitter 20 give 25.
C18_Witness ==
  \E m \in QoeRecords :
    /\ m.packet_loss_percent = 200
    /\ m.latency_ms = 10000
    /\ m.jitter_ms = 2000
    /\ m.qoe_score = 2500

\* ------------------------------------------------------------ the exit
\* C19: shutdown does not wait for the loop thread: once the interrupt has set
\* the flag to false the process exits, even if requests.post never returns;
\* it exits exactly when the grace period of 2 seconds is over, whatever the
\* loop thread is doing, and from then on the loop thread takes no step, so a
\* thread inside a tick or asleep never reaches its loop exit.
C19_ExitNeverWaits ==
  /\ (mainPc = "grace") ~> (mainPc = "exited")
  /\ []((mainPc = "grace" /\ graceT = Grace) => ENABLED Exit)
  /\ [][(mainPc' = "exited" /\ mainPc # "exited") =>
          /\ ~running /\ graceT = Grace
          /\ UNCHANGED <<loopPc, iteration, sleepT, made, call, passed,
                         returned, outcomes>>]_vars
  /\ [](mainPc = "exited" =>
          ~ENABLED simulation_loop /\ ~ENABLED send_to_xapp /\ ~ENABLED Tick)

\* The process has exited with the loop thread in a request that has lasted
\* the whole timeout and has not returned.
C19_Witness ==
  /\ mainPc = "exited"
  /\ loopPc = "kpi_sent"
  /\ call.stage = "inflight"
  /\ call.t = Timeout
  /\ iteration = 2

====
